---- MODULE Spec2Model ----
(***************************************************************************)
(* Model of Delta_RLE.py: the SimpleCompressionSystem codec (delta         *)
(* encoding, run-length encoding and the three methods that compose them)  *)
(* and the interactive menu loop of main() that drives it on files.        *)
(*                                                                         *)
(* Python indexes from 0 and TLA+ sequences from 1: the operators keep the *)
(* source's 0-based index variables and read through At.                   *)
(***************************************************************************)
EXTENDS Integers, Sequences, FiniteSets, TLC

VARIABLES
    x,              \* codec: the byte sequence handed to the codec
    method,         \* codec: the method selector handed to the codec
    pc,             \* codec: which calls the caller has made so far
    compressed,     \* codec: outcome of compress(x, method)
    decompressed,   \* codec: outcome of the decompress call
    files,          \* shell: file name -> contents, NoFile or Denied
    running,        \* shell: the while True loop of main() is still looping
    choice,         \* shell: the menu choice of the last iteration
    chosen,         \* shell: the method string typed in the last iteration
    printed,        \* shell: what the last iteration printed after the menu
    trace,          \* shell: file reads/writes and codec calls of the last iteration
    passes          \* shell: how many times the loop body has run

vars == <<x, method, pc, compressed, decompressed,
          files, running, choice, chosen, printed, trace, passes>>

codecVars == <<x, method, pc, compressed, decompressed>>
shellVars == <<files, running, choice, chosen, printed, trace, passes>>

----------------------------------------------------------------------------
(* Program constants *)

\* `& 0xFF` keeps the low 8 bits: arithmetic modulo 256
ByteMod == 256

\* `run_length < 255`: the longest run one record carries
MaxRun == 255

(* Bounds of the model *)

\* longest short input enumerated byte by byte
MaxLen == 4

\* longest prefix and suffix put around a long run
MaxPad == 1

\* longest input handed to decompress as a stream of its own
MaxStream == 4

\* longest file present when the shell starts
MaxInitialFile == 2

\* longest file the shell is followed to
MaxFile == 4

\* how many passes of the menu loop are followed
MaxPasses == 3

----------------------------------------------------------------------------
(* Byte sequences *)

At(data, i) == data[i + 1]

Repeat(byte, n) == [k \in 1..n |-> byte]

IsByteSeq(s) == \A k \in 1..Len(s) : s[k] \in 0..(ByteMod - 1)

SeqsUpTo(S, n) == UNION {[1..k -> S] : k \in 0..n}

ByteVals == {0, 1, 2, 128, 255}
PadVals == {0, 255}
RunVals == {0, 10, 255}
RunLens == {255, 256, 300, 510, 511}

ShortInputs == SeqsUpTo(ByteVals, MaxLen)

LongInputs ==
    {pre \o Repeat(b, n) \o suf :
        pre \in SeqsUpTo(PadVals, MaxPad), b \in RunVals,
        n \in RunLens, suf \in SeqsUpTo(PadVals, MaxPad)}

ExampleInputs == {<<10, 10, 10, 12, 12>>, <<1, 2, 3, 4>>}

Inputs == ShortInputs \cup LongInputs \cup ExampleInputs

ValidMethods == {"01", "02", "03"}
Methods == ValidMethods \cup {"99"}

----------------------------------------------------------------------------
(* Outcome of a call: a returned byte sequence, or the exception raised.    *)
(* `applied` lists the transforms the call ran before it ended.            *)

InvalidMethod == "ValueError: Invalid method. Use '01', '02', or '03'."
ByteRange == "ValueError: byte must be in range(0, 256)"
IndexError == "IndexError: index out of range"

Return(value, applied) ==
    [status |-> "returned", value |-> value, applied |-> applied]

Raise(error, applied) ==
    [status |-> error, value |-> <<>>, applied |-> applied]

NotCalled == [status |-> "not called", value |-> <<>>, applied |-> <<>>]

\* bytes(compressed): every element must be in range(0, 256)
bytes(seq, applied) ==
    IF IsByteSeq(seq) THEN Return(seq, applied) ELSE Raise(ByteRange, applied)

----------------------------------------------------------------------------
(* Delta encoding *)

\* variant: the difference is not reduced with & 0xFF
DeltaByteUnmasked(data, i) ==
    IF i > 0 THEN At(data, i) - At(data, i - 1) ELSE At(data, i)

DeltaByte(data, i) ==
    IF i > 0 THEN (At(data, i) - At(data, i - 1)) % ByteMod ELSE At(data, i)

apply_delta_encoding(data) ==
    [k \in 1..Len(data) |-> DeltaByte(data, k - 1)]

----------------------------------------------------------------------------
(* Run-length encoding *)

\* variant: the run is not capped at 255
RunContinuesUncapped(data, i, run_length) ==
    /\ i + run_length < Len(data)
    /\ At(data, i) = At(data, i + run_length)

\* variant: the bound check is off by one, so the last byte is never joined
RunContinuesShort(data, i, run_length) ==
    /\ i + run_length + 1 < Len(data)
    /\ At(data, i) = At(data, i + run_length)
    /\ run_length < MaxRun

\* the condition of the inner while loop
RunContinues(data, i, run_length) ==
    /\ i + run_length < Len(data)
    /\ At(data, i) = At(data, i + run_length)
    /\ run_length < MaxRun

\* the inner while loop, started at run_length and run for at most n passes:
\* the value of run_length when the condition first fails. The n passes are
\* walked in two halves, the second only if the first ran to its end.
RECURSIVE RunLength(_, _, _, _)
RunLength(data, i, run_length, n) ==
    IF n = 0 THEN run_length
    ELSE IF n = 1 THEN
        IF RunContinues(data, i, run_length) THEN run_length + 1 ELSE run_length
    ELSE LET half == n \div 2
             reached == RunLength(data, i, run_length, half)
         IN  IF reached < run_length + half
             THEN reached
             ELSE RunLength(data, i, reached, n - half)

\* the outer while loop; the inner loop's condition fails within len(data)
\* passes, since it needs i + run_length < len(data)
RECURSIVE RleLoop(_, _, _)
RleLoop(data, i, out) ==
    IF i < Len(data)
    THEN LET run_length == RunLength(data, i, 1, Len(data))
         IN  RleLoop(data, i + run_length, out \o <<At(data, i), run_length>>)
    ELSE out

\* variant: a final flush of the pending run, also when there is none
apply_rle_flush(data) ==
    IF Len(data) = 0 THEN <<0, 0>> ELSE RleLoop(data, 0, <<>>)

apply_rle(data) == RleLoop(data, 0, <<>>)

----------------------------------------------------------------------------
(* compress *)

\* variant: an unrecognized method falls through to delta encoding
compressLenient(data, m) ==
    IF m = "01" THEN
        bytes(apply_rle(apply_delta_encoding(data)), <<"delta", "rle">>)
    ELSE IF m = "02" THEN
        bytes(apply_rle(data), <<"rle">>)
    ELSE
        bytes(apply_delta_encoding(data), <<"delta">>)

compress(data, m) ==
    IF m = "01" THEN
        bytes(apply_rle(apply_delta_encoding(data)), <<"delta", "rle">>)
    ELSE IF m = "02" THEN
        bytes(apply_rle(data), <<"rle">>)
    ELSE IF m = "03" THEN
        bytes(apply_delta_encoding(data), <<"delta">>)
    ELSE
        Raise(InvalidMethod, <<>>)

----------------------------------------------------------------------------
(* decompress: each branch carries its own copy of the loops *)

\* one pass of `while i < len(data)` of method '01'; data[i + 1] raises
\* IndexError when the stream ends in the middle of a pair
RECURSIVE ReverseRLE01(_, _, _)
ReverseRLE01(data, i, out) ==
    IF i < Len(data)
    THEN IF i + 1 < Len(data)
         THEN ReverseRLE01(data, i + 2, out \o Repeat(At(data, i), At(data, i + 1)))
         ELSE Raise(IndexError, <<"rle">>)
    ELSE Return(out, <<"rle">>)

\* variant: the encoder's subtraction left in the decoder
DeltaStep01Minus(out, i) ==
    [out EXCEPT ![i + 1] = (At(out, i) - At(out, i - 1)) % ByteMod]

\* decompressed[i] = (decompressed[i] + decompressed[i - 1]) & 0xFF, in place
DeltaStep01(out, i) ==
    [out EXCEPT ![i + 1] = (At(out, i) + At(out, i - 1)) % ByteMod]

\* for i in range(lo, hi), in increasing order of i; the range is walked in
\* two halves, the first finished (its length read) before the second starts
RECURSIVE ReverseDelta01(_, _, _)
ReverseDelta01(out, lo, hi) ==
    IF hi <= lo THEN out
    ELSE IF hi = lo + 1 THEN DeltaStep01(out, lo)
    ELSE LET mid == (lo + hi) \div 2
             first == ReverseDelta01(out, lo, mid)
         IN  IF Len(first) < hi THEN first ELSE ReverseDelta01(first, mid, hi)

RECURSIVE ReverseRLE02(_, _, _)
ReverseRLE02(data, i, out) ==
    IF i < Len(data)
    THEN IF i + 1 < Len(data)
         THEN ReverseRLE02(data, i + 2, out \o Repeat(At(data, i), At(data, i + 1)))
         ELSE Raise(IndexError, <<"rle">>)
    ELSE Return(out, <<"rle">>)

\* variant: the running sum is not reduced with & 0xFF
DeltaStep03Unmasked(out, i) ==
    [out EXCEPT ![i + 1] = At(out, i) + At(out, i - 1)]

DeltaStep03(out, i) ==
    [out EXCEPT ![i + 1] = (At(out, i) + At(out, i - 1)) % ByteMod]

\* for i in range(lo, hi), in increasing order of i; the range is walked in
\* two halves, the first finished (its length read) before the second starts
RECURSIVE ReverseDelta03(_, _, _)
ReverseDelta03(out, lo, hi) ==
    IF hi <= lo THEN out
    ELSE IF hi = lo + 1 THEN DeltaStep03(out, lo)
    ELSE LET mid == (lo + hi) \div 2
             first == ReverseDelta03(out, lo, mid)
         IN  IF Len(first) < hi THEN first ELSE ReverseDelta03(first, mid, hi)

decompress(data, m) ==
    IF m = "01" THEN
        LET rle == ReverseRLE01(data, 0, <<>>)
        IN  IF rle.status = "returned"
            THEN bytes(ReverseDelta01(rle.value, 1, Len(rle.value)), <<"rle", "delta">>)
            ELSE rle
    ELSE IF m = "02" THEN
        LET rle == ReverseRLE02(data, 0, <<>>)
        IN  IF rle.status = "returned" THEN bytes(rle.value, <<"rle">>) ELSE rle
    ELSE IF m = "03" THEN
        bytes(ReverseDelta03(data, 1, Len(data)), <<"delta">>)
    ELSE
        Raise(InvalidMethod, <<>>)

----------------------------------------------------------------------------
(* The codec used as a library: a caller compresses x and decompresses the *)
(* result with the same method, or hands x to decompress as a stream.      *)

NoShell ==
    /\ files = <<>>
    /\ running = FALSE
    /\ choice = ""
    /\ chosen = ""
    /\ printed = <<>>
    /\ trace = <<>>
    /\ passes = 0

Init ==
    /\ x \in Inputs
    /\ method \in Methods
    /\ pc = "start"
    /\ compressed = NotCalled
    /\ decompressed = NotCalled
    /\ NoShell

Compress ==
    /\ pc = "start"
    /\ compressed' = compress(x, method)
    /\ pc' = "compressed"
    /\ UNCHANGED <<x, method, decompressed, shellVars>>

Decompress ==
    /\ pc = "compressed"
    /\ compressed.status = "returned"
    /\ decompressed' = decompress(compressed.value, method)
    /\ pc' = "restored"
    /\ UNCHANGED <<x, method, compressed, shellVars>>

DecompressStream ==
    /\ pc = "start"
    /\ Len(x) <= MaxStream
    /\ decompressed' = decompress(x, method)
    /\ pc' = "decoded"
    /\ UNCHANGED <<x, method, compressed, shellVars>>

Next == Compress \/ Decompress \/ DecompressStream

Spec == Init /\ [][Next]_vars

----------------------------------------------------------------------------
(* The interactive shell: main() and benchmark().                          *)
(*                                                                         *)
(* A file name is the sequence of its parts, so that "a.cmp" is            *)
(* <<"a", ".cmp">> and the empty string is <<>>. A file is absent, present *)
(* with its bytes, or present but refused by open() ("denied").            *)

NameA == <<"a">>
NameACmp == <<"a", ".cmp">>
NameCmp == <<".cmp">>

Names == {NameA, NameACmp, NameCmp}
TypedNames == {<<>>, NameA, NameACmp}

FileVals == {0, 1, 2}

Absent == [kind |-> "absent", data |-> <<>>]
Denied == [kind |-> "denied", data |-> <<>>]
File(data) == [kind |-> "file", data |-> data]

FileNotFound == "[Errno 2] No such file or directory"
PermissionDenied == "[Errno 13] Permission denied"
ZeroDivision == "division by zero"
EndOfInput == "EOF when reading a line"

NotAsked == "not asked"

\* a printed line: its text and the numbers formatted into it
Line(text, nums) == [text |-> text, nums |-> nums]

FileNotFoundLine == Line("File not found!", <<>>)
MustBeCmpLine == Line("Must be a .cmp file!", <<>>)
InvalidMethodLine == Line("Invalid method selected.", <<>>)

\* print(f"Error: {e}"): the exception's message, without its class name; the
\* file name that ends an OS error's message is left out
ErrorText(status) ==
    IF status = InvalidMethod THEN "Error: Invalid method. Use '01', '02', or '03'."
    ELSE IF status = ByteRange THEN "Error: byte must be in range(0, 256)"
    ELSE IF status = IndexError THEN "Error: index out of range"
    ELSE IF status = FileNotFound THEN "Error: [Errno 2] No such file or directory"
    ELSE IF status = PermissionDenied THEN "Error: [Errno 13] Permission denied"
    ELSE IF status = ZeroDivision THEN "Error: division by zero"
    ELSE "Error: EOF when reading a line"

ErrorLine(status) == Line(ErrorText(status), <<>>)

ErrorTexts ==
    {ErrorText(e) : e \in {InvalidMethod, ByteRange, IndexError, FileNotFound,
                           PermissionDenied, ZeroDivision, EndOfInput}}

\* what an iteration did besides printing
ReadOf(name) == [op |-> "read", name |-> name]
WriteOf(name) == [op |-> "write", name |-> name]
CallOf(function) == [op |-> function, name |-> <<>>]

\* name.endswith('.cmp')
EndsWithCmp(name) == Len(name) > 0 /\ name[Len(name)] = ".cmp"

\* os.path.exists(name)
Exists(fs, name) == name \in DOMAIN fs /\ fs[name].kind # "absent"

\* with open(name, 'rb') as f: f.read()
OpenRead(fs, name) ==
    IF ~Exists(fs, name) THEN Raise(FileNotFound, <<>>)
    ELSE IF fs[name].kind = "denied" THEN Raise(PermissionDenied, <<>>)
    ELSE Return(fs[name].data, <<>>)

\* with open(name, 'wb') as f: f.write(data)
OpenWrite(fs, name, data) ==
    IF name \notin DOMAIN fs THEN [status |-> FileNotFound, files |-> fs]
    ELSE IF fs[name].kind = "denied" THEN [status |-> PermissionDenied, files |-> fs]
    ELSE [status |-> "returned", files |-> [fs EXCEPT ![name] = File(data)]]

\* len(compressed)/len(original) formatted with :.1%, in tenths of a percent
\* (to the nearest tenth); the division raises when original is empty
Ratio(compressed_len, original_len) ==
    IF original_len = 0 THEN [status |-> ZeroDivision, value |-> 0]
    ELSE [status |-> "returned",
          value |-> (2000 * compressed_len + original_len) \div (2 * original_len)]

\* variant: any method string is let through to the codec
MethodAcceptedAny(m) == TRUE

\* not (method not in ['01', '02', '03'])
MethodAccepted(m) == m \in {"01", "02", "03"}

\* how an iteration ends: the files, the lines printed, what was done, and
\* the method string typed (NotAsked when that prompt was not reached)
Outcome(fs, lines, done, m) ==
    [files |-> fs, printed |-> lines, trace |-> done, chosen |-> m]

\* choice "1"
CompressFile(fs, input_file, typed_output, m) ==
    IF ~Exists(fs, input_file) THEN
        Outcome(fs, <<FileNotFoundLine>>, <<>>, NotAsked)
    ELSE
    LET output_file == IF EndsWithCmp(typed_output) THEN typed_output
                       ELSE Append(typed_output, ".cmp")
        original == OpenRead(fs, input_file)
        result == compress(original.value, m)
        written == OpenWrite(fs, output_file, result.value)
        ratio == Ratio(Len(result.value), Len(original.value))
        read == <<ReadOf(input_file)>>
        called == Append(read, CallOf("compress"))
        wrote == Append(called, WriteOf(output_file))
    IN  IF ~MethodAccepted(m) THEN
            Outcome(fs, <<InvalidMethodLine>>, <<>>, m)
        ELSE IF original.status # "returned" THEN
            Outcome(fs, <<ErrorLine(original.status)>>, <<>>, m)
        ELSE IF result.status # "returned" THEN
            Outcome(fs, <<ErrorLine(result.status)>>, called, m)
        ELSE IF written.status # "returned" THEN
            Outcome(fs, <<ErrorLine(written.status)>>, called, m)
        ELSE IF ratio.status # "returned" THEN
            Outcome(written.files, <<ErrorLine(ratio.status)>>, wrote, m)
        ELSE
            Outcome(written.files,
                    <<Line("Compressed {} -> {} bytes ({})",
                           <<Len(original.value), Len(result.value), ratio.value>>)>>,
                    wrote, m)

\* choice "2"
DecompressFile(fs, input_file, output_file, m) ==
    LET stream == OpenRead(fs, input_file)
        result == decompress(stream.value, m)
        written == OpenWrite(fs, output_file, result.value)
        read == <<ReadOf(input_file)>>
        called == Append(read, CallOf("decompress"))
        wrote == Append(called, WriteOf(output_file))
    IN  IF ~EndsWithCmp(input_file) THEN
            Outcome(fs, <<MustBeCmpLine>>, <<>>, NotAsked)
        ELSE IF ~MethodAccepted(m) THEN
            Outcome(fs, <<InvalidMethodLine>>, <<>>, m)
        ELSE IF stream.status # "returned" THEN
            Outcome(fs, <<ErrorLine(stream.status)>>, <<>>, m)
        ELSE IF result.status # "returned" THEN
            Outcome(fs, <<ErrorLine(result.status)>>, called, m)
        ELSE IF written.status # "returned" THEN
            Outcome(fs, <<ErrorLine(written.status)>>, called, m)
        ELSE
            Outcome(written.files,
                    <<Line("Successfully decompressed {} -> {} bytes",
                           <<Len(stream.value), Len(result.value)>>)>>,
                    wrote, m)

\* benchmark(file_path, method)
benchmark(fs, file_path, m) ==
    LET original == OpenRead(fs, file_path)
        result == compress(original.value, m)
        ratio == Ratio(Len(result.value), Len(original.value))
        restored == decompress(result.value, m)
        testing == <<Line("Testing {} ({} bytes)", <<Len(original.value)>>)>>
        reported == Append(testing,
                           Line("Compressed: {} bytes ({})",
                                <<Len(result.value), ratio.value>>))
        read == <<ReadOf(file_path)>>
        called == Append(read, CallOf("compress"))
        both == Append(called, CallOf("decompress"))
    IN  IF original.status # "returned" THEN
            Outcome(fs, <<ErrorLine(original.status)>>, <<>>, m)
        ELSE IF result.status # "returned" THEN
            Outcome(fs, Append(testing, ErrorLine(result.status)), called, m)
        ELSE IF ratio.status # "returned" THEN
            Outcome(fs, Append(testing, ErrorLine(ratio.status)), called, m)
        ELSE IF restored.status # "returned" THEN
            Outcome(fs, Append(reported, ErrorLine(restored.status)), both, m)
        ELSE
            Outcome(fs,
                    Append(reported,
                           Line("Decompressed: {} bytes", <<Len(restored.value)>>)),
                    both, m)

\* choice "3"
BenchmarkFile(fs, file_to_test, m) ==
    IF Exists(fs, file_to_test) THEN
        IF ~MethodAccepted(m) THEN Outcome(fs, <<InvalidMethodLine>>, <<>>, m)
        ELSE benchmark(fs, file_to_test, m)
    ELSE Outcome(fs, <<FileNotFoundLine>>, <<>>, NotAsked)

\* the files of the outcome stay within the model's bound
WithinBound(fs) == \A n \in DOMAIN fs : Len(fs[n].data) <= MaxFile

NoCodec ==
    /\ x = <<>>
    /\ method = ""
    /\ pc = "shell"
    /\ compressed = NotCalled
    /\ decompressed = NotCalled

InitShell ==
    /\ NoCodec
    /\ files \in
        {[n \in Names |-> IF n = NameA THEN File(data)
                          ELSE IF n = NameACmp THEN cmp ELSE Absent] :
            data \in SeqsUpTo(FileVals, MaxInitialFile), cmp \in {Absent, Denied}}
    /\ running = TRUE
    /\ choice = ""
    /\ chosen = NotAsked
    /\ printed = <<>>
    /\ trace = <<>>
    /\ passes = 0

\* one pass of the while loop ending as `end`
Finish(c, end) ==
    /\ passes < MaxPasses
    /\ WithinBound(end.files)
    /\ passes' = passes + 1
    /\ choice' = c
    /\ files' = end.files
    /\ printed' = end.printed
    /\ trace' = end.trace
    /\ chosen' = end.chosen
    /\ running' = TRUE
    /\ UNCHANGED codecVars

ChooseCompress ==
    /\ running
    /\ \E input_file \in TypedNames, output_file \in TypedNames, m \in Methods :
        Finish("1", CompressFile(files, input_file, output_file, m))

ChooseDecompress ==
    /\ running
    /\ \E input_file \in TypedNames, output_file \in TypedNames, m \in Methods :
        Finish("2", DecompressFile(files, input_file, output_file, m))

ChooseBenchmark ==
    /\ running
    /\ \E file_to_test \in TypedNames, m \in Methods :
        Finish("3", BenchmarkFile(files, file_to_test, m))

\* choice "4": break
ChooseExit ==
    /\ running
    /\ passes < MaxPasses
    /\ passes' = passes + 1
    /\ choice' = "4"
    /\ running' = FALSE
    /\ printed' = <<>>
    /\ trace' = <<>>
    /\ chosen' = NotAsked
    /\ UNCHANGED <<files, codecVars>>

\* any other answer: no branch matches, back to the menu
ChooseOther ==
    /\ running
    /\ Finish("", Outcome(files, <<>>, <<>>, NotAsked))

\* input() raises EOFError at the menu prompt: caught by `except Exception`
InputFails ==
    /\ running
    /\ Finish(choice, Outcome(files, <<ErrorLine(EndOfInput)>>, <<>>, NotAsked))

NextShell ==
    \/ ChooseCompress
    \/ ChooseDecompress
    \/ ChooseBenchmark
    \/ ChooseExit
    \/ ChooseOther
    \/ InputFails

ShellSpec == InitShell /\ [][NextShell]_vars

----------------------------------------------------------------------------
(* Properties of the codec, checked under Spec *)

Compressed == pc \in {"compressed", "restored"}

\* the sequence handed to apply_rle by the method in use
RleInput == IF method = "01" THEN apply_delta_encoding(x) ELSE x

\* the records of an RLE stream v: record k is <<v[2k-1], v[2k]>>
Records(v) == 1..(Len(v) \div 2)
Value(v, k) == v[2 * k - 1]
Run(v, k) == v[2 * k]

\* the number of input bytes covered by the records before record k
RECURSIVE Start(_, _)
Start(v, k) == IF k <= 1 THEN 0 ELSE Start(v, k - 1) + Run(v, k - 1)

NoAdjacentEqual(s) == \A k \in 1..(Len(s) - 1) : s[k] # s[k + 1]

\* C1: round trip. For each of the three methods and every byte sequence x
\* (empty, one byte, with a run of more than 255 equal bytes), compress
\* returns and decompress of what it returned, with the same method,
\* returns x.
C1_RoundTrip ==
    (method \in ValidMethods /\ Compressed) =>
        /\ compressed.status = "returned"
        /\ pc = "restored" =>
            /\ decompressed.status = "returned"
            /\ decompressed.value = x

C1_Witness ==
    /\ pc = "restored"
    /\ method = "01"
    /\ Len(x) > MaxRun
    /\ compressed.value # x
    /\ decompressed.value = x

\* C2: with a method that is none of '01', '02', '03', compress and decompress
\* both raise the invalid-method error, return nothing, and apply no
\* transform before failing.
C2_InvalidMethod ==
    method \notin ValidMethods =>
        /\ Compressed =>
            /\ compressed.status = InvalidMethod
            /\ compressed.value = <<>>
            /\ compressed.applied = <<>>
        /\ pc = "decoded" =>
            /\ decompressed.status = InvalidMethod
            /\ decompressed.value = <<>>
            /\ decompressed.applied = <<>>
        /\ pc # "restored"

C2_Witness ==
    /\ method = "99"
    /\ pc = "compressed"
    /\ Len(x) > 0
    /\ compressed.status = InvalidMethod

\* C3: decompress of an odd-length stream with an RLE method ('01' or '02')
\* fails with an explicit MalformedRLEStream error and returns nothing.
C3_MalformedStream ==
    (pc = "decoded" /\ method \in {"01", "02"} /\ Len(x) % 2 = 1) =>
        /\ decompressed.status = "MalformedRLEStream"
        /\ decompressed.value = <<>>

\* C4: the output of the run-length encoder has even length, every run
\* length byte is in 1..255, and 300 equal bytes b encode to exactly
\* [b, 255] then [b, 45].
C4_RunRecords ==
    (Compressed /\ method \in {"01", "02"}) =>
        LET v == compressed.value
        IN  /\ compressed.status = "returned"
            /\ Len(v) % 2 = 0
            /\ \A k \in Records(v) : Run(v, k) \in 1..255
            /\ (method = "02" /\ Len(x) = 300 /\ \A k \in 1..300 : x[k] = x[1]) =>
                    v = <<x[1], 255, x[1], 45>>

C4_Witness ==
    /\ pc = "compressed"
    /\ method = "02"
    /\ Len(x) = 300
    /\ \A k \in 1..300 : x[k] = 10
    /\ compressed.value = <<10, 255, 10, 45>>

\* C5: the encoder emits maximal runs. Each record covers the longest
\* stretch of equal bytes starting where the previous record ended, capped
\* at 255; two adjacent records carry the same value only when the first has
\* run length 255; the output is at most twice as long as the input, and
\* exactly twice as long just when no two adjacent input bytes are equal.
C5_MaximalRuns ==
    (Compressed /\ method \in {"01", "02"}) =>
        LET v == compressed.value
            d == RleInput
            n == Len(v) \div 2
        IN  /\ Start(v, n + 1) = Len(d)
            /\ \A k \in Records(v) :
                LET s == Start(v, k)
                    r == Run(v, k)
                IN  /\ \A j \in 1..r : d[s + j] = Value(v, k)
                    /\ \/ r = 255
                       \/ s + r = Len(d)
                       \/ d[s + r + 1] # Value(v, k)
            /\ \A k \in 1..(n - 1) :
                Value(v, k) = Value(v, k + 1) => Run(v, k) = 255
            /\ Len(v) <= 2 * Len(d)
            /\ Len(v) = 2 * Len(d) <=> NoAdjacentEqual(d)

C5_Witness ==
    /\ pc = "compressed"
    /\ method = "02"
    /\ x = <<1, 2, 3, 4>>
    /\ compressed.value = <<1, 1, 2, 1, 3, 1, 4, 1>>

\* C6: delta encoding (method '03') returns for every input, keeps the
\* length, passes the first byte through, and from the second byte on gives
\* the difference to the preceding input byte reduced into 0..255.
C6_DeltaEncode ==
    (Compressed /\ method = "03") =>
        LET v == compressed.value
        IN  /\ compressed.status = "returned"
            /\ Len(v) = Len(x)
            /\ Len(x) > 0 => v[1] = x[1]
            /\ \A k \in 2..Len(x) :
                /\ v[k] \in 0..255
                /\ \E q \in {0, 1} : v[k] = x[k] - x[k - 1] + 256 * q

C6_Witness ==
    /\ pc = "compressed"
    /\ method = "03"
    /\ x = <<255, 0>>
    /\ compressed.value = <<255, 1>>

\* C7: method '01' is the composition of the other two. compress(x, '01')
\* equals compress(compress(x, '03'), '02'); for an even-length stream,
\* decompress(y, '01') equals decompress(decompress(y, '02'), '03'); and
\* [10,10,10,12,12] compresses to [10,1,0,2,2,1,0,1], which decompresses
\* back to it.
C7_Composition ==
    method = "01" =>
        /\ Compressed =>
            LET delta == compress(x, "03")
                both == compress(delta.value, "02")
            IN  /\ delta.status = "returned"
                /\ compressed.status = both.status
                /\ compressed.value = both.value
        /\ (pc = "decoded" /\ Len(x) % 2 = 0) =>
            LET rle == decompress(x, "02")
                both == decompress(rle.value, "03")
            IN  /\ rle.status = "returned"
                /\ decompressed.status = both.status
                /\ decompressed.value = both.value
        /\ (Compressed /\ x = <<10, 10, 10, 12, 12>>) =>
            /\ compressed.value = <<10, 1, 0, 2, 2, 1, 0, 1>>
            /\ pc = "restored" => decompressed.value = x

C7_Witness ==
    /\ method = "01"
    /\ pc = "restored"
    /\ x = <<10, 10, 10, 12, 12>>
    /\ compressed.value = <<10, 1, 0, 2, 2, 1, 0, 1>>
    /\ decompressed.value = <<10, 10, 10, 12, 12>>

\* C8: on the empty sequence, compress and decompress both return the empty
\* sequence, whichever of the three methods is used, and raise nothing.
C8_EmptyInput ==
    (x = <<>> /\ method \in ValidMethods) =>
        /\ Compressed =>
            /\ compressed.status = "returned"
            /\ compressed.value = <<>>
        /\ pc \in {"decoded", "restored"} =>
            /\ decompressed.status = "returned"
            /\ decompressed.value = <<>>

C8_Witness ==
    /\ x = <<>>
    /\ method = "01"
    /\ pc = "restored"
    /\ compressed.status = "returned"
    /\ decompressed.status = "returned"

----------------------------------------------------------------------------
(* Properties of the shell, checked under ShellSpec *)

FailureTexts ==
    ErrorTexts \cup {FileNotFoundLine.text, MustBeCmpLine.text, InvalidMethodLine.text}

RatioTexts == {"Compressed {} -> {} bytes ({})", "Compressed: {} bytes ({})"}

Printed(lines, texts) == \E k \in 1..Len(lines) : lines[k].text \in texts

\* the last pass read its input file
ReadInput == trace # <<>> /\ trace[1].op = "read"

\* the last pass of choice "1" could not write its output file
WriteRefused == choice = "1" /\ Len(trace) = 2

\* C9: in the compress action and the benchmark action, for an existing,
\* readable input file of any length (zero included) and a valid method
\* (and, for compress, an output file that can be written), the shell prints
\* the ratio line with the byte counts, reports no error, and the benchmark
\* goes on to decompress and print the decompressed size.
C9_RatioReported ==
    (choice \in {"1", "3"} /\ chosen \in ValidMethods /\ ReadInput /\ ~WriteRefused) =>
        /\ Printed(printed, RatioTexts)
        /\ ~Printed(printed, ErrorTexts)
        /\ choice = "3" => Printed(printed, {"Decompressed: {} bytes"})

\* C10: the menu loop never ends because of an error. The loop ends only by
\* choice "4"; a pass that prints a failure leaves the loop running; every
\* pass of choice 1, 2 or 3 prints its result or its failure; and a method
\* string other than '01', '02', '03' is turned away with no file read or
\* written and no codec call.
C10_LoopSurvivesErrors ==
    [][ /\ (running /\ ~running') => choice' = "4"
        /\ Printed(printed', FailureTexts) => running'
        /\ choice' \in {"1", "2", "3"} => (running' /\ printed' # <<>>)
        /\ chosen' \notin (ValidMethods \cup {NotAsked}) =>
            /\ files' = files
            /\ trace' = <<>>
            /\ printed' = <<InvalidMethodLine>>
            /\ running'
      ]_vars

C10_Witness ==
    /\ running
    /\ choice = "2"
    /\ chosen = "02"
    /\ printed = <<ErrorLine(IndexError)>>
    /\ trace = <<ReadOf(NameACmp), CallOf("decompress")>>
    /\ passes < MaxPasses

====
